---- MODULE Spec2Model ----
(***************************************************************************)
(* MA-Monthly-Enrollment-Data: the monthly update pipeline                 *)
(* (update_data.py: download, combine) and the dashboard's filter and      *)
(* aggregation path (dashboard_app.py).                                    *)
(*                                                                         *)
(* Text is modelled by lexical class: a CSV cell is a record               *)
(* [form, v] where form is "int" ("7"), "float" ("7.0"), "blank" (""),     *)
(* "dot" (".") and v the number the digits denote.  A period key           *)
(* "YYYY-MM" is the integer YYYY*100+MM: the key has fixed width and is    *)
(* zero padded, so the lexicographic order of the strings is the order of  *)
(* these integers.                                                         *)
(***************************************************************************)
EXTENDS Integers, Sequences, FiniteSets, TLC

VARIABLES today, elapsed, dataDir, manifestFile, csvFile, pc, combined,
          written, oldCsv, outcome, contacted, listing, df_full, loadState, view,
          directory, parent_org_map, contract_id, parent_organization, orgPc

vars == <<today, elapsed, dataDir, manifestFile, csvFile, pc, combined,
          written, oldCsv, outcome, contacted, listing, df_full, loadState, view,
          directory, parent_org_map, contract_id, parent_organization, orgPc>>

pipeVars == <<today, elapsed, dataDir, manifestFile, csvFile, pc, combined,
              written, oldCsv, outcome, contacted, listing>>

dashVars == <<df_full, loadState, view>>

orgVars == <<directory, parent_org_map, contract_id, parent_organization, orgPc>>

(* ---------------------------------------------------------------- bounds *)

\* Rows of a dataset the dashboard is opened on, beside its history.
MaxDashRows == 3

\* Periods of one-row history in the long datasets the dashboard is opened on.
HistLen == 13

\* Months the clock advances during a behaviour.
MaxMonths == 1

\* Periods already downloaded in the long-running initial state.
History == 24

\* Period folders up to which every enumeration order is tried.
MaxShuffled == 3

\* Rows of a plan directory file.
MaxDirRows == 2

(* ------------------------------------------------------------- sequences *)

RECURSIVE SortedSeq(_)
\* sorted(set of integers), ascending.
SortedSeq(S) ==
  IF S = {} THEN <<>>
  ELSE LET m == CHOOSE x \in S : \A y \in S : x <= y
       IN <<m>> \o SortedSeq(S \ {m})

RECURSIVE Flatten(_)
\* Concatenation of a sequence of sequences.
Flatten(ss) == IF ss = <<>> THEN <<>> ELSE Head(ss) \o Flatten(Tail(ss))

RECURSIVE SetToSeq(_)
\* The elements of a finite set in some fixed order.
SetToSeq(S) ==
  IF S = {} THEN <<>>
  ELSE LET x == CHOOSE y \in S : TRUE IN <<x>> \o SetToSeq(S \ {x})

SubsetsUpTo(S, n) == {T \in SUBSET S : Cardinality(T) <= n}

Range(s) == {s[i] : i \in 1..Len(s)}

(* ------------------------------------------------------------ cell values *)

Cell(form, v) == [form |-> form, v |-> v]
Blank == Cell("blank", 0)
Dot == Cell("dot", 0)

Num(v) == [k |-> "num", v |-> v]
NaN == [k |-> "nan", v |-> 0]

\* pd.to_numeric(x, errors="coerce") on one cell: digits parse, the rest is NaN.
to_numeric(c) == IF c.form \in {"int", "float"} THEN Num(c.v) ELSE NaN

\* df.replace(".", ""): a cell that is exactly "." becomes "".
replace_dot(c) == IF c.form = "dot" THEN Blank ELSE c

(* ------------------------------------------------------------- calendar *)

\* date.today() of the month with index i; index 0 is January 2022.
DateOf(i) == [year |-> 2022 + (i \div 12), month |-> (i % 12) + 1]

\* f"{year}-{month:02d}"
PeriodKey(year, month) == year * 100 + month

get_current_period(d) ==
  IF d.month = 1 THEN PeriodKey(d.year - 1, 12)
  ELSE PeriodKey(d.year, d.month - 1)

(* ------------------------------------------------------------- manifest *)

NoFile == [exists |-> FALSE, lines |-> <<>>]

\* A manifest that is never found where it is looked for.
load_manifest_lost(f) == {}

load_manifest(f) == IF f.exists THEN Range(f.lines) ELSE {}

save_manifest(periods) == [exists |-> TRUE, lines |-> SortedSeq(periods)]

(* ------------------------------------------------------------- extracts *)

States == {"CA", "TX"}

RawRow(s, e) == [State |-> s, PlanType |-> "HMO", Enrolled |-> e]

\* The bodies the source serves for a period: a header line alone, one
\* counted row, a redacted row followed by a negative one.
Extracts ==
  { <<>>,
    <<RawRow("CA", Cell("int", 7))>>,
    <<RawRow("CA", Dot), RawRow("TX", Cell("int", -3))>> }

\* The columns of an extract that the model carries.
Columns == {"State", "Plan Type", "Enrolled"}

\* A file of a period folder: whether its name ends in .csv, whether
\* pd.read_csv parses it, the columns of its header line, and its rows.
CsvFile(rows) == [csv |-> TRUE, readable |-> TRUE, columns |-> Columns, rows |-> rows]

\* The bytes of a broken archive saved under a .csv name.
BadCsv == [csv |-> TRUE, readable |-> FALSE, columns |-> {}, rows |-> <<>>]

\* An extract whose header line lacks one column: its rows have no cell
\* there (an absent State is NaN after the concat and written empty).
NoColumnCsv(col) ==
  [csv |-> TRUE, readable |-> TRUE, columns |-> Columns \ {col},
   rows |-> << [State |-> IF col = "State" THEN "" ELSE "CA",
                PlanType |-> IF col = "Plan Type" THEN "" ELSE "HMO",
                Enrolled |-> IF col = "Enrolled" THEN Blank ELSE Cell("int", 7)] >>]

GoodFiles == {CsvFile(rows) : rows \in Extracts}

\* What the source may serve as a CSV: an extract, or one lacking a column.
ServedFiles == GoodFiles \cup {NoColumnCsv("State"), NoColumnCsv("Enrolled")}

\* What a ZIP archive of the source extracts into the period folder: nothing,
\* one CSV, or two.
Archives ==
  { <<>>,
    <<CsvFile(<<RawRow("CA", Cell("int", 7))>>)>>,
    <<CsvFile(<<RawRow("CA", Cell("int", 7))>>), CsvFile(<<RawRow("TX", Cell("int", 7))>>)>> }

(* ------------------------------------------------------ download_period *)

dir_nonempty(dir, period) == period \in DOMAIN dir /\ dir[period] # <<>>

\* The folder after download_period, for each way the fetch can end.
\*   "nourl", "httperror": nothing written (the folder is not created);
\*   "zip": the archive's members are extracted;
\*   "badzip": the raw bytes are saved as MA_Enrollment_SCC_<period>.csv;
\*   "csv": the body is saved as that file.
download_dir(dir, period, how, body) ==
  IF dir_nonempty(dir, period) THEN dir
  ELSE IF how \in {"nourl", "httperror"} THEN dir
  ELSE LET files == CASE how = "zip" -> body
                      [] how = "badzip" -> <<BadCsv>>
                      [] OTHER -> <<Head(body)>>
       IN [p \in (DOMAIN dir) \cup {period} |-> IF p = period THEN files ELSE dir[p]]

\* A download that reports success whatever happened.
download_period_always(dir, period, how) == TRUE

download_period(dir, period, how) ==
  dir_nonempty(dir, period) \/ how \notin {"nourl", "httperror"}

\* The requests download_period sends to the source and what each came to:
\* none when the folder is already filled, the sub-page alone when it
\* yields no link, the sub-page and the file otherwise.
requests_get(dir, period, how) ==
  IF dir_nonempty(dir, period) THEN <<>>
  ELSE IF how = "nourl" THEN << <<"sub-page", period, "no link">> >>
  ELSE << <<"sub-page", period, "link">>,
          <<"file", period, IF how = "httperror" THEN "error" ELSE "ok">> >>

Fetches ==
  {<<"nourl", <<>>>>, <<"httperror", <<>>>>, <<"badzip", <<>>>>}
    \cup {<<"zip", a>> : a \in Archives}
    \cup {<<"csv", <<f>>>> : f \in ServedFiles}

(* --------------------------------------------------------- step_combine *)

\* sorted(DATA_DIR.rglob("*.csv")) without the names holding "combined":
\* <<period, file>> in path order.
RECURSIVE csv_files_from(_, _)
csv_files_from(dir, periods) ==
  IF periods = <<>> THEN <<>>
  ELSE LET p == Head(periods)
           fs == dir[p]
           mine == [i \in 1..Len(fs) |-> <<p, fs[i]>>]
       IN SelectSeq(mine, LAMBDA x : x[2].csv) \o csv_files_from(dir, Tail(periods))

\* The retention window of the specification's Period Store.
RETENTION_WINDOW == 24

\* DATA_DIR.rglob("*.csv"): the files as the file system enumerates them,
\* folder after folder in the order it happens to keep them (the order of
\* their creation, or any other); the files of one folder in name order.
rglob(dir, order) == csv_files_from(dir, order)

RECURSIVE Perms(_)
\* Every order of the elements of a finite set.
Perms(S) ==
  IF S = {} THEN {<<>>}
  ELSE UNION {{<<x>> \o t : t \in Perms(S \ {x})} : x \in S}

\* The enumeration orders tried for a set of period folders: all of them
\* for a few folders, the latest folder first for many.
Listings(S) ==
  IF Cardinality(S) <= MaxShuffled THEN Perms(S)
  ELSE LET up == SortedSeq(S)
       IN {[i \in 1..Len(up) |-> up[Len(up) + 1 - i]]}

\* A sort that leaves the paths as they were enumerated.
sorted_as_listed(files) == files

\* sorted(paths): by period folder, the files of a folder as they stand.
sorted(files) ==
  LET ps == SortedSeq({files[i][1] : i \in 1..Len(files)})
  IN Flatten([k \in 1..Len(ps) |-> SelectSeq(files, LAMBDA x : x[1] = ps[k])])

\* The files of the RETENTION_WINDOW most recent period folders only.
csv_files_pruned(dir, order) ==
  LET ps == SortedSeq(DOMAIN dir)
      drop == IF Len(ps) > RETENTION_WINDOW THEN Len(ps) - RETENTION_WINDOW ELSE 0
  IN csv_files_from(dir, SubSeq(ps, drop + 1, Len(ps)))

csv_files(dir, order) == sorted(rglob(dir, order))

\* One file read by the loop body: the period column is inserted, "." is
\* blanked and Enrolled is made numeric.
read_frame(period, file) ==
  [i \in 1..Len(file.rows) |->
     [report_period |-> period,
      State |-> file.rows[i].State,
      PlanType |-> file.rows[i].PlanType,
      Enrolled |-> to_numeric(replace_dot(file.rows[i].Enrolled))]]

\* The try block of the loop ends without an exception: the file parses
\* and df["Enrolled"] exists.
reads(file) == file.readable /\ "Enrolled" \in file.columns

\* all_dfs: the frames of the files that could be read.
all_dfs(dir, order) ==
  LET fs == SelectSeq(csv_files(dir, order), LAMBDA x : reads(x[2]))
  IN [i \in 1..Len(fs) |-> read_frame(fs[i][1], fs[i][2])]

\* A merge that also keeps the persisted rows of the periods no frame holds.
concat_persisted(dfs) ==
  LET new == Flatten(dfs)
      kept == SelectSeq(csvFile.rows,
                LAMBDA r : \A i \in 1..Len(new) : new[i].report_period # r.report_period)
  IN [i \in 1..Len(kept) |->
        [report_period |-> kept[i].report_period, State |-> kept[i].State,
         PlanType |-> kept[i].PlanType,
         Enrolled |-> to_numeric(kept[i].Enrolled)]] \o new

\* pd.concat(all_dfs, ignore_index=True)
concat(dfs) == Flatten(dfs)

\* The dtype of the Enrolled column after concat: float64 as soon as one
\* value is NaN, int64 otherwise.
is_float(frame) == \E i \in 1..Len(frame) : frame[i].Enrolled = NaN

\* One row as DataFrame.to_csv writes it.
csv_row(row, float) ==
  [report_period |-> row.report_period,
   State |-> row.State,
   PlanType |-> row.PlanType,
   Enrolled |-> IF row.Enrolled = NaN THEN Blank
                ELSE Cell(IF float THEN "float" ELSE "int", row.Enrolled.v)]

CsvRow(p, s, t, e) == [report_period |-> p, State |-> s, PlanType |-> t, Enrolled |-> e]

\* combined_enrollment.csv: absent, or a header line (once written) and rows.
NoCsv == [exists |-> FALSE, header |-> FALSE, rows |-> <<>>]

\* A mode that keeps what the file holds.
open_a(file) == [exists |-> TRUE, header |-> file.header, rows |-> file.rows]

\* open(path, "w"): the file exists and is empty.
open_w(file) == [exists |-> TRUE, header |-> FALSE, rows |-> <<>>]

\* The whole text to_csv produces for a frame.
to_csv(frame) ==
  [exists |-> TRUE, header |-> TRUE,
   rows |-> [i \in 1..Len(frame) |-> csv_row(frame[i], is_float(frame))]]

(* ------------------------------------------------------------ load_data *)

\* load_data: an empty categorical cell becomes "Unknown", Enrolled is made
\* numeric and NaN filled with 0.
fillna_unknown(x) == IF x = "" THEN "Unknown" ELSE x

load_row(r) ==
  [report_period |-> r.report_period,
   State |-> fillna_unknown(r.State),
   PlanType |-> fillna_unknown(r.PlanType),
   Enrolled |-> IF to_numeric(r.Enrolled) = NaN THEN 0 ELSE to_numeric(r.Enrolled).v]

load_data(file) == [i \in 1..Len(file.rows) |-> load_row(file.rows[i])]

\* pd.read_csv raises on a missing file and on a file without a header line.
load_fails(file) == ~file.exists \/ ~file.header

(* ------------------------------------------------------------ dashboard *)
\* Of the five filter dimensions the model carries State and Plan Type; the
\* others (parent, contract, county) are applied by the same isin test.

None == [k |-> "none", v |-> 0]
Inf == [k |-> "inf", v |-> 1]
NegInf == [k |-> "inf", v |-> -1]

Abs(x) == IF x < 0 THEN -x ELSE x

\* round(a / b) for b # 0, halves to the even neighbour.
RoundDiv(a, b) ==
  LET n == Abs(a)
      d == Abs(b)
      q == n \div d
      r == n % d
      up == (2 * r > d) \/ (2 * r = d /\ q % 2 = 1)
      m == IF up THEN q + 1 ELSE q
  IN IF (a < 0) # (b < 0) THEN -m ELSE m

\* delta / base * 100 of a non-zero base, in hundredths of a percent.
percent(delta, base) == Num(RoundDiv(delta * 10000, base))

RECURSIVE sum_enrolled(_)
\* d["Enrolled"].sum()
sum_enrolled(d) == IF d = <<>> THEN 0 ELSE Head(d).Enrolled + sum_enrolled(Tail(d))

\* sorted(d["report_period"].unique())
periods_of(d) == SortedSeq({d[i].report_period : i \in 1..Len(d)})

\* d[d["report_period"] == p]
in_period(d, p) == SelectSeq(d, LAMBDA r : r.report_period = p)

\* A filter whose period bounds exclude the bounds themselves.
apply_filters_open(d, state, plan_type, p_start, p_end) ==
  LET d1 == SelectSeq(d, LAMBDA r : r.report_period > p_start /\ r.report_period < p_end)
      d2 == IF state # {} THEN SelectSeq(d1, LAMBDA r : r.State \in state) ELSE d1
  IN IF plan_type # {} THEN SelectSeq(d2, LAMBDA r : r.PlanType \in plan_type) ELSE d2

apply_filters(d, state, plan_type, p_start, p_end) ==
  LET d1 == SelectSeq(d, LAMBDA r : r.report_period >= p_start /\ r.report_period <= p_end)
      d2 == IF state # {} THEN SelectSeq(d1, LAMBDA r : r.State \in state) ELSE d1
  IN IF plan_type # {} THEN SelectSeq(d2, LAMBDA r : r.PlanType \in plan_type) ELSE d2

\* None where a period key is expected.
NoPeriod == PeriodKey(0, 0)

\* filtered_periods[-1], filtered_periods[-2]
f_latest(fp) == IF fp # <<>> THEN fp[Len(fp)] ELSE NoPeriod
f_prev(fp) == IF Len(fp) > 1 THEN fp[Len(fp) - 1] ELSE NoPeriod

\* The number of timeline positions a year-over-year comparison spans.
YOY_SPAN == 13

\* filtered_periods[-13] if len(filtered_periods) >= 13 else None
yoy_period(fp) == IF Len(fp) >= YOY_SPAN THEN fp[Len(fp) - YOY_SPAN + 1] ELSE NoPeriod

\* The headline metrics k1..k3.
KPIs(df, fp) ==
  LET latest_enrolled == IF f_latest(fp) # NoPeriod THEN sum_enrolled(in_period(df, f_latest(fp))) ELSE 0
      prev_enrolled == IF f_prev(fp) # NoPeriod THEN sum_enrolled(in_period(df, f_prev(fp))) ELSE 0
      mom_delta == latest_enrolled - prev_enrolled
      mom_pct == IF prev_enrolled # 0 THEN percent(mom_delta, prev_enrolled) ELSE Num(0)
      yoy_enrolled == IF yoy_period(fp) # NoPeriod
                      THEN Num(sum_enrolled(in_period(df, yoy_period(fp)))) ELSE None
      truthy == yoy_enrolled # None /\ yoy_enrolled.v # 0
      yoy_delta == IF truthy THEN Num(latest_enrolled - yoy_enrolled.v) ELSE None
      yoy_pct == IF truthy THEN percent(yoy_delta.v, yoy_enrolled.v) ELSE None
  IN [latest_enrolled |-> latest_enrolled,
      prev_enrolled |-> prev_enrolled,
      mom_delta |-> mom_delta,
      mom_pct |-> mom_pct,
      yoy_period |-> yoy_period(fp),
      yoy_delta |-> yoy_delta,
      yoy_pct |-> yoy_pct,
      k3_value |-> IF yoy_delta # None THEN yoy_delta ELSE [k |-> "dash", v |-> 0],
      k3_delta |-> IF yoy_pct # None THEN yoy_pct ELSE [k |-> "need13", v |-> 0]]

\* Series.pct_change() then fillna(0) * 100: NaN (no predecessor, or 0/0)
\* becomes 0, a division of a non-zero change by 0 stays infinite.
pct_change(prev, cur) ==
  IF prev = 0
  THEN (IF cur = 0 THEN Num(0) ELSE IF cur > 0 THEN Inf ELSE NegInf)
  ELSE percent(cur - prev, prev)

\* The whole-dataset series of tabs 1 and 5, ascending by period.
monthly(df, fp) ==
  LET enrolled(i) == sum_enrolled(in_period(df, fp[i]))
  IN [i \in 1..Len(fp) |->
        [Period |-> fp[i],
         Enrolled |-> enrolled(i),
         MoMChange |-> IF i = 1 THEN 0 ELSE enrolled(i) - enrolled(i - 1),
         MoMPct |-> IF i = 1 THEN Num(0) ELSE pct_change(enrolled(i - 1), enrolled(i))]]

\* The order groupby gives the State keys.
StateNames == <<"CA", "TX", "Unknown">>

\* latest_df.groupby("State")["Enrolled"].sum().reset_index()
groupby_state(d) ==
  LET keys == SelectSeq(StateNames, LAMBDA s : \E i \in 1..Len(d) : d[i].State = s)
  IN [i \in 1..Len(keys) |->
        [State |-> keys[i],
         Enrolled |-> sum_enrolled(SelectSeq(d, LAMBDA r : r.State = keys[i]))]]

\* add_mom with group_cols = ["State"].
add_mom(base_df, prev_df) ==
  IF prev_df = <<>>
  THEN [i \in 1..Len(base_df) |->
          [State |-> base_df[i].State, Enrolled |-> base_df[i].Enrolled,
           MoMChange |-> 0, MoMPct |-> Num(0)]]
  ELSE LET prev_agg == groupby_state(prev_df)
       IN [i \in 1..Len(base_df) |->
             LET hit == {g \in Range(prev_agg) : g.State = base_df[i].State}
                 Prev == IF hit = {} THEN 0 ELSE (CHOOSE g \in hit : TRUE).Enrolled
                 change == base_df[i].Enrolled - Prev
             IN [State |-> base_df[i].State, Enrolled |-> base_df[i].Enrolled,
                 MoMChange |-> change,
                 MoMPct |-> IF Prev = 0 THEN NaN ELSE percent(change, Prev)]]

RECURSIVE sort_desc(_)
\* sort_values("Enrolled", ascending=False); equal sums keep their order.
sort_desc(t) ==
  IF t = <<>> THEN <<>>
  ELSE LET rest == sort_desc(Tail(t))
           before == SelectSeq(rest, LAMBDA r : r.Enrolled > Head(t).Enrolled)
           after == SelectSeq(rest, LAMBDA r : r.Enrolled <= Head(t).Enrolled)
       IN before \o <<Head(t)>> \o after

\* Tab 2's table.
by_state(df, fp) ==
  LET latest_df == in_period(df, f_latest(fp))
      prev_df == IF f_prev(fp) # NoPeriod THEN in_period(df, f_prev(fp)) ELSE <<>>
  IN sort_desc(add_mom(groupby_state(latest_df), prev_df))

\* What a table cell shows for MoM %: the dash for NaN, the number otherwise.
display_pct(x) == IF x = NaN THEN [k |-> "dash", v |-> 0] ELSE x

\* One run of the script below the widgets.  With no filtered period,
\* latest_df is a DataFrame without columns and latest_df["Contract ID"]
\* raises KeyError before anything is drawn.
script(d, sel) ==
  LET df == apply_filters(d, sel.state, sel.plan_type, sel.p_start, sel.p_end)
      fp == periods_of(df)
  IN IF f_latest(fp) = NoPeriod
     THEN [ok |-> FALSE, error |-> "KeyError", sel |-> sel, df |-> df]
     ELSE [ok |-> TRUE, error |-> "", sel |-> sel, df |-> df,
           filtered_periods |-> fp,
           kpi |-> KPIs(df, fp),
           monthly |-> monthly(df, fp),
           by_state |-> by_state(df, fp)]

\* The period slider's values: any ordered pair of dataset periods; the one
\* period twice, or nothing, when the dataset has fewer than two.
period_ranges(all_periods) ==
  IF Len(all_periods) > 1
  THEN UNION {{<<all_periods[i], all_periods[j]>> : j \in i..Len(all_periods)} :
                i \in 1..Len(all_periods)}
  ELSE IF all_periods # <<>> THEN {<<all_periods[1], all_periods[1]>>}
  ELSE {<<NoPeriod, NoPeriod>>}

(* --------------------------------------------------- parent organization *)

\* A missing cell (NaN) of a column read with dtype=str.
NaNCell == "<NaN>"

\* str.strip() on the cells the model uses; a missing cell stays missing.
strip(x) == IF x = " H2 " THEN "H2" ELSE x

\* The words the heuristics look for, by lower-cased column name.
Words ==
  [c \in {"Contract Number", "Contract ID", "Contract Name", "Parent Organization", "Plan Name"} |->
     CASE c = "Contract Number" -> {"contract", "number"}
       [] c = "Contract ID" -> {"contract", "id"}
       [] c = "Contract Name" -> {"contract"}
       [] c = "Parent Organization" -> {"parent"}
       [] OTHER -> {}]

\* next((c for c in df.columns if ...), None): the first of the columns at
\* the positions that pass, "" when none does.
first_column(columns, hits) ==
  IF hits = {} THEN "" ELSE columns[CHOOSE i \in hits : \A j \in hits : i <= j]

contract_col(columns) ==
  first_column(columns,
    {i \in 1..Len(columns) :
       /\ "contract" \in Words[columns[i]]
       /\ ("number" \in Words[columns[i]] \/ "id" \in Words[columns[i]])})

parent_col(columns) ==
  first_column(columns, {i \in 1..Len(columns) : "parent" \in Words[columns[i]]})

\* No MA_Contract_directory* / MA_Plan_Directory* file beside the script.
NoDirectory == [exists |-> FALSE, readable |-> FALSE, columns |-> <<>>, rows |-> <<>>]

\* dict(zip(keys, values)): one entry a key, the last row of a key wins.
dict_zip(rows) ==
  [k \in {strip(rows[i].contract) : i \in 1..Len(rows)} |->
     LET at == {i \in 1..Len(rows) : strip(rows[i].contract) = k}
     IN strip(rows[CHOOSE i \in at : \A j \in at : j <= i].parent)]

\* load_parent_org_mapping: {} without a file, when reading raises, and
\* when a column is not discovered.
load_parent_org_mapping(file) ==
  IF ~file.exists THEN <<>>
  ELSE IF ~file.readable THEN <<>>
  ELSE IF contract_col(file.columns) # "" /\ parent_col(file.columns) # ""
  THEN dict_zip(file.rows)
  ELSE <<>>

\* The value of the Parent Organization column when no mapping is loaded
\* (the dashes at its ends are em dashes in the source, written -- here).
NoMappingText == "-- Load plan directory for parent org data --"

\* A column that is mapped and filled whether or not a mapping is loaded.
parent_organization_mapped(ids, mapping) ==
  [i \in 1..Len(ids) |->
     IF ids[i] \in DOMAIN mapping /\ mapping[ids[i]] # NaNCell
     THEN mapping[ids[i]]
     ELSE "Unknown / Other"]

\* df_full["Parent Organization"]: the mapped column with NaN filled when
\* the mapping is truthy, the one text for every row otherwise.
parent_organization_of(ids, mapping) ==
  IF DOMAIN mapping # {}
  THEN [i \in 1..Len(ids) |->
          IF ids[i] \in DOMAIN mapping /\ mapping[ids[i]] # NaNCell
          THEN mapping[ids[i]]
          ELSE "Unknown / Other"]
  ELSE [i \in 1..Len(ids) |-> NoMappingText]

(* ---------------------------------------------------------------- state *)

Done(step, result) == [step |-> step, result |-> result]

NoView == [ok |-> FALSE, error |-> "none"]

\* The persisted dataset of an earlier checkout: periods the data folder of
\* this runner does not hold, and the first period it will download.
LegacyCsv ==
  [exists |-> TRUE, header |-> TRUE,
   rows |-> << CsvRow(PeriodKey(2021, 6), "CA", "HMO", Cell("int", 5)),
               CsvRow(PeriodKey(2021, 12), "CA", "HMO", Cell("int", 5)),
               CsvRow(PeriodKey(2021, 12), "TX", "HMO", Cell("int", 5)) >>]

\* The data folder after h monthly runs that each saved a one-row CSV.
HistoryDir(h) ==
  [p \in {get_current_period(DateOf(i)) : i \in 1..h} |->
     <<CsvFile(<<RawRow("CA", Cell("int", 7))>>)>>]

InitIdle ==
  /\ pc = "idle"
  /\ combined = <<>>
  /\ written = 0
  /\ outcome = Done("none", "none")
  /\ contacted = <<>>
  /\ listing = <<>>
  /\ oldCsv = csvFile

\* A first run: nothing downloaded yet; the checkout holds no combined
\* dataset, or the one an earlier runner persisted.
InitPipe ==
  /\ today = 0
  /\ elapsed = 0
  /\ dataDir = HistoryDir(0)
  /\ manifestFile = NoFile
  /\ csvFile \in {NoCsv, LegacyCsv}
  /\ InitIdle

\* After History monthly runs, each downloaded, recorded and combined; the
\* calendar has one month left to move.
InitLong ==
  /\ today = History
  /\ elapsed = MaxMonths - 1
  /\ dataDir = HistoryDir(History)
  /\ manifestFile = save_manifest(DOMAIN dataDir)
  /\ csvFile = to_csv(concat(all_dfs(dataDir, SortedSeq(DOMAIN dataDir))))
  /\ InitIdle

\* The dashboard's lookup of parent organizations has not run.
InitOrgIdle ==
  /\ parent_org_map = <<>>
  /\ contract_id = <<>>
  /\ parent_organization = <<>>
  /\ orgPc = "start"

InitDash ==
  /\ df_full = <<>>
  /\ loadState = "unloaded"
  /\ view = NoView
  /\ directory = NoDirectory
  /\ InitOrgIdle

Init == InitPipe /\ InitDash

(* -------------------------------------------------------------- actions *)

\* The calendar moves to the next month.
Tick ==
  /\ pc = "idle"
  /\ elapsed < MaxMonths
  /\ today' = today + 1
  /\ elapsed' = elapsed + 1
  /\ UNCHANGED <<dataDir, manifestFile, csvFile, pc, combined, written, oldCsv, outcome, contacted, listing>>
  /\ UNCHANGED dashVars
  /\ UNCHANGED orgVars

\* One run of --step download; the variables of an earlier run of the
\* combine step are gone with its process.
step_download ==
  /\ pc = "idle"
  /\ LET period == get_current_period(DateOf(today))
         manifest == load_manifest(manifestFile)
     IN IF period \in manifest
        THEN /\ outcome' = Done("download", "nothing to do")
             /\ contacted' = <<>>
             /\ UNCHANGED <<dataDir, manifestFile>>
        ELSE \E fetch \in Fetches :
               /\ dataDir' = download_dir(dataDir, period, fetch[1], fetch[2])
               /\ contacted' = requests_get(dataDir, period, fetch[1])
               /\ IF download_period(dataDir, period, fetch[1])
                  THEN /\ manifestFile' = save_manifest(manifest \cup {period})
                       /\ outcome' = Done("download", "ok")
                  ELSE /\ manifestFile' = manifestFile
                       /\ outcome' = Done("download", "RuntimeError")
  /\ combined' = <<>>
  /\ written' = 0
  /\ listing' = <<>>
  /\ UNCHANGED <<today, elapsed, csvFile, pc, oldCsv>>
  /\ UNCHANGED dashVars
  /\ UNCHANGED orgVars

\* One run of --step combine up to the opening of the output file; the
\* variables of an earlier run of the download step are gone.
step_combine ==
  /\ pc = "idle"
  /\ listing' \in Listings(DOMAIN dataDir)
  /\ IF csv_files(dataDir, listing') = <<>>
     THEN /\ outcome' = Done("combine", "RuntimeError")
          /\ combined' = <<>>
          /\ written' = 0
          /\ UNCHANGED <<csvFile, pc, oldCsv>>
     ELSE IF all_dfs(dataDir, listing') = <<>>
     THEN /\ outcome' = Done("combine", "ValueError")
          /\ combined' = <<>>
          /\ written' = 0
          /\ UNCHANGED <<csvFile, pc, oldCsv>>
     ELSE /\ combined' = concat(all_dfs(dataDir, listing'))
          /\ oldCsv' = csvFile
          /\ csvFile' = open_w(csvFile)
          /\ written' = 0
          /\ pc' = "open"
          /\ outcome' = Done("combine", "running")
  /\ contacted' = <<>>
  /\ UNCHANGED <<today, elapsed, dataDir, manifestFile>>
  /\ UNCHANGED dashVars
  /\ UNCHANGED orgVars

\* to_csv writes the header line.
to_csv_header ==
  /\ pc = "open"
  /\ csvFile' = [csvFile EXCEPT !.header = TRUE]
  /\ pc' = "rows"
  /\ UNCHANGED <<today, elapsed, dataDir, manifestFile, combined, written, oldCsv, outcome, contacted, listing>>
  /\ UNCHANGED dashVars
  /\ UNCHANGED orgVars

\* to_csv writes the next row.
to_csv_row ==
  /\ pc = "rows"
  /\ written < Len(combined)
  /\ csvFile' = [csvFile EXCEPT
                   !.rows = Append(@, csv_row(combined[written + 1], is_float(combined)))]
  /\ written' = written + 1
  /\ UNCHANGED <<today, elapsed, dataDir, manifestFile, pc, combined, oldCsv, outcome, contacted, listing>>
  /\ UNCHANGED dashVars
  /\ UNCHANGED orgVars

\* to_csv closes the file and step_combine returns.
to_csv_close ==
  /\ pc = "rows"
  /\ written = Len(combined)
  /\ pc' = "idle"
  /\ outcome' = Done("combine", "ok")
  /\ UNCHANGED <<today, elapsed, dataDir, manifestFile, csvFile, combined, written, oldCsv, contacted, listing>>
  /\ UNCHANGED dashVars
  /\ UNCHANGED orgVars

\* The write fails: the process ends with the file as far as it was written.
to_csv_fail ==
  /\ pc \in {"open", "rows"}
  /\ pc' = "idle"
  /\ outcome' = Done("combine", "OSError")
  /\ UNCHANGED <<today, elapsed, dataDir, manifestFile, csvFile, combined, written, oldCsv, contacted, listing>>
  /\ UNCHANGED dashVars
  /\ UNCHANGED orgVars

\* The dashboard process reads the persisted dataset.
LoadData ==
  /\ IF load_fails(csvFile)
     THEN /\ loadState' = "error"
          /\ df_full' = <<>>
     ELSE /\ loadState' = "ok"
          /\ df_full' = load_data(csvFile)
  /\ view' = NoView
  /\ UNCHANGED pipeVars
  /\ UNCHANGED orgVars

Next ==
  \/ Tick
  \/ step_download
  \/ step_combine
  \/ to_csv_header
  \/ to_csv_row
  \/ to_csv_close
  \/ to_csv_fail

Spec == Init /\ [][Next]_vars

(* ------------------------------------------------- the dashboard alone *)

\* Rows of the three most recent periods: a count of 5 or a redacted cell.
RecentRows ==
  {CsvRow(PeriodKey(2024, mo), st, "HMO", e) :
     mo \in 1..3, st \in States, e \in {Blank, Cell("int", 5)}}
    \cup {CsvRow(PeriodKey(2024, 3), "CA", "PPO", Cell("int", 5))}

\* One row for each of the n months before January 2024.
HistoryRows(n, e) ==
  [i \in 1..n |-> CsvRow(get_current_period(DateOf(24 - n + i)), "CA", "HMO", e)]

\* The persisted datasets the dashboard is opened on.
DashFiles ==
  {[exists |-> TRUE, header |-> TRUE, rows |-> SetToSeq(T)] :
     T \in SubsetsUpTo(RecentRows, MaxDashRows)}
    \cup {[exists |-> TRUE, header |-> TRUE, rows |-> HistoryRows(HistLen, e) \o SetToSeq(T)] :
            e \in {Blank, Cell("int", 5)}, T \in SubsetsUpTo(RecentRows, 1)}

InitDashboard ==
  /\ today = 0
  /\ elapsed = 0
  /\ dataDir = HistoryDir(0)
  /\ manifestFile = NoFile
  /\ csvFile \in DashFiles
  /\ InitIdle
  /\ InitDash

\* One run of the script, on freshly loaded data, for one state of the
\* sidebar widgets.
Rerun ==
  /\ loadState = "ok"
  /\ view = NoView
  /\ \E state \in SUBSET {df_full[i].State : i \in 1..Len(df_full)},
        plan_type \in SUBSET {df_full[i].PlanType : i \in 1..Len(df_full)},
        range \in period_ranges(periods_of(df_full)) :
       view' = script(df_full, [state |-> state, plan_type |-> plan_type,
                                p_start |-> range[1], p_end |-> range[2]])
  /\ UNCHANGED <<df_full, loadState>>
  /\ UNCHANGED pipeVars
  /\ UNCHANGED orgVars

NextDash ==
  \/ LoadData
  \/ Rerun

SpecDash == InitDashboard /\ [][NextDash]_vars

InitLongRun == InitLong /\ InitDash

\* The pipeline in its third year of monthly runs.
SpecLong == InitLongRun /\ [][Next]_vars

(* ------------------------------------------- the parent organizations *)

\* The cells of a directory row under the two discovered columns.
DirectoryRows ==
  {[contract |-> c, parent |-> q] : c \in {"H1", " H2 "}, q \in {"Humana", NaNCell}}

RECURSIVE SeqsUpTo(_, _)
\* The sequences over S of length n or less.
SeqsUpTo(S, n) ==
  IF n = 0 THEN {<<>>}
  ELSE LET shorter == SeqsUpTo(S, n - 1)
       IN shorter \cup {Append(t, x) : t \in {u \in shorter : Len(u) = n - 1}, x \in S}

\* The header lines of the directory files.
DirectoryColumns ==
  { <<"Contract Number", "Parent Organization">>,
    <<"Contract Name", "Contract ID", "Parent Organization">>,
    <<"Contract Number", "Plan Name">>,
    <<"Contract Name", "Parent Organization">> }

\* The newest directory file beside the script: none, one that cannot be
\* read, or a table.
Directories ==
  {NoDirectory, [exists |-> TRUE, readable |-> FALSE, columns |-> <<>>, rows |-> <<>>]}
    \cup {[exists |-> TRUE, readable |-> TRUE, columns |-> h, rows |-> rs] :
            h \in DirectoryColumns, rs \in SeqsUpTo(DirectoryRows, MaxDirRows)}

\* The dashboard starts beside one of the directory files, on a dataset
\* with three contracts.
InitOrg ==
  /\ today = 0
  /\ elapsed = 0
  /\ dataDir = HistoryDir(0)
  /\ manifestFile = NoFile
  /\ csvFile = NoCsv
  /\ InitIdle
  /\ df_full = <<>>
  /\ loadState = "unloaded"
  /\ view = NoView
  /\ InitOrgIdle
  /\ directory \in Directories

\* parent_org_map = load_parent_org_mapping(), after load_data.
LoadParentOrgMapping ==
  /\ orgPc = "start"
  /\ parent_org_map' = load_parent_org_mapping(directory)
  /\ contract_id' = <<"H1", "H2", "Unknown">>
  /\ orgPc' = "mapped"
  /\ UNCHANGED <<directory, parent_organization>>
  /\ UNCHANGED pipeVars
  /\ UNCHANGED dashVars

\* The Parent Organization column is added to df_full.
AddParentOrganization ==
  /\ orgPc = "mapped"
  /\ parent_organization' = parent_organization_of(contract_id, parent_org_map)
  /\ orgPc' = "added"
  /\ UNCHANGED <<directory, parent_org_map, contract_id>>
  /\ UNCHANGED pipeVars
  /\ UNCHANGED dashVars

NextOrg ==
  \/ LoadParentOrgMapping
  \/ AddParentOrganization

SpecOrg == InitOrg /\ [][NextOrg]_vars

(* ---------------------------------------------------- the Period Store *)

\* The timeline of a persisted dataset: its distinct period keys.
Timeline(file) == {file.rows[i].report_period : i \in 1..Len(file.rows)}

\* The rows a reader of the dataset gets for one period, in file order.
PeriodRows(file, p) ==
  LET rs == SelectSeq(file.rows, LAMBDA r : r.report_period = p)
  IN [i \in 1..Len(rs) |-> [State |-> rs[i].State, Enrolled |-> load_row(rs[i]).Enrolled]]

\* The periods whose folder holds a readable CSV with at least one row.
Ingested(dir) ==
  {p \in DOMAIN dir :
     \E i \in 1..Len(dir[p]) : dir[p][i].csv /\ reads(dir[p][i]) /\ dir[p][i].rows # <<>>}

\* The count a raw Enrolled cell stands for: its number, 0 when it has none.
Count(c) == IF c.form = "int" THEN c.v ELSE 0

\* The rows of the batch last downloaded for a period, file after file.
RECURSIVE BatchRows(_)
BatchRows(files) ==
  IF files = <<>> THEN <<>>
  ELSE LET f == Head(files)
           mine == IF f.csv /\ reads(f)
                   THEN [i \in 1..Len(f.rows) |->
                           [State |-> f.rows[i].State, Enrolled |-> Count(f.rows[i].Enrolled)]]
                   ELSE <<>>
       IN mine \o BatchRows(Tail(files))

Combined == outcome = Done("combine", "ok")

C2_ReingestReplaces ==
  Combined =>
    /\ \A p \in DOMAIN dataDir : PeriodRows(csvFile, p) = BatchRows(dataDir[p])
    /\ ( /\ ~load_fails(oldCsv)
         /\ Timeline(oldCsv) \subseteq DOMAIN dataDir
         /\ \A p \in DOMAIN dataDir : PeriodRows(oldCsv, p) = BatchRows(dataDir[p]) )
       => load_data(csvFile) = load_data(oldCsv)

\* A combine re-ingested a period the persisted dataset already held with
\* other rows.
C2_Witness ==
  /\ Combined
  /\ \E p \in Ingested(dataDir) :
       /\ PeriodRows(oldCsv, p) # <<>>
       /\ PeriodRows(oldCsv, p) # PeriodRows(csvFile, p)
       /\ Len(PeriodRows(csvFile, p)) = Len(BatchRows(dataDir[p]))

Snapshot(file) == IF load_fails(file) THEN <<"error">> ELSE <<"ok", load_data(file)>>

\* C4: from the moment a combine opens the dataset, a reader gets the
\* complete old dataset or the complete new one, also when the write fails.
C4_AtomicWrite ==
  (outcome.step = "combine" /\ outcome.result \in {"running", "OSError"})
    => Snapshot(csvFile) \in {Snapshot(oldCsv), Snapshot(to_csv(combined))}

(* --------------------------------------------------------- the manifest *)

\* The periods the persisted manifest lists, one a line.
Recorded(f) == IF f.exists THEN {f.lines[i] : i \in 1..Len(f.lines)} ELSE {}

\* The period a download invocation made today is about.
Target == get_current_period(DateOf(today))

\* C12: no download invocation sends a request for a period the persisted
\* manifest already lists; invoked for such a period it contacts nothing and
\* leaves the manifest and the data folder as they are.
C12_ManifestIdempotent ==
  [][step_download =>
       \A p \in Recorded(manifestFile) :
         /\ \A i \in 1..Len(contacted') : contacted'[i][2] # p
         /\ p = Target =>
              /\ contacted' = <<>>
              /\ manifestFile' = manifestFile
              /\ dataDir' = dataDir]_vars

\* A download invocation found its period in the manifest and did nothing,
\* although the period's folder holds no file that would stop a fetch.
C12_Witness ==
  /\ outcome = Done("download", "nothing to do")
  /\ Target \in Recorded(manifestFile)
  /\ ~dir_nonempty(dataDir, Target)
  /\ contacted = <<>>

\* The requests of an invocation ended without a file received.
Failed(c) == c # <<>> /\ c[Len(c)][3] # "ok"

\* C16: a download invocation adds nothing to the persisted manifest but
\* its own period, and that only when the download succeeded; when the
\* download fails the invocation raises, the persisted manifest is exactly
\* what it was, the period is not in it, and the next invocation for the
\* same period contacts the source again.
C16_ManifestOnSuccess ==
  [][step_download =>
       /\ Recorded(manifestFile') \subseteq Recorded(manifestFile) \cup {Target}
       /\ Target \in Recorded(manifestFile') \ Recorded(manifestFile)
            => ~Failed(contacted') /\ outcome' = Done("download", "ok")
       /\ Failed(contacted')
            => /\ outcome' = Done("download", "RuntimeError")
               /\ manifestFile' = manifestFile
               /\ Target \notin Recorded(manifestFile')
       /\ (outcome = Done("download", "RuntimeError") /\ contacted[1][2] = Target)
            => contacted' # <<>> /\ contacted'[1][2] = Target]_vars

\* A month after a recorded download, the download of the next period
\* failed and the manifest still lists the earlier period alone.
C16_Witness ==
  /\ outcome = Done("download", "RuntimeError")
  /\ Failed(contacted)
  /\ Recorded(manifestFile) # {}
  /\ Target \notin Recorded(manifestFile)

(* ------------------------------------------------- malformed extracts *)

\* An extract that parses but lacks a column of the schema.
Malformed(f) == f.csv /\ f.readable /\ f.columns # Columns

\* The periods whose folder holds a malformed extract.
MalformedPeriods(dir) == {p \in DOMAIN dir : \E i \in 1..Len(dir[p]) : Malformed(dir[p][i])}

\* C11: when an extract of a period lacks a mandatory column, none of the
\* period's rows are applied by the combine, and the rows the dataset held
\* for that period before the combine are still there, unchanged.
C11_MalformedAbandoned ==
  Combined =>
    \A p \in MalformedPeriods(dataDir) : PeriodRows(csvFile, p) = PeriodRows(oldCsv, p)

(* --------------------------------------------------- order of ingestion *)

\* The rows of a dataset as a reader gets them, each with its period.
Stored(file) ==
  [i \in 1..Len(file.rows) |->
     [report_period |-> file.rows[i].report_period,
      State |-> file.rows[i].State,
      Enrolled |-> load_row(file.rows[i]).Enrolled]]

\* The rows the extracts of a set of period folders offer, folder after
\* folder in no particular order.
RECURSIVE Offered(_, _)
Offered(dir, P) ==
  IF P = {} THEN <<>>
  ELSE LET p == CHOOSE q \in P : TRUE
           rs == BatchRows(dir[p])
       IN [i \in 1..Len(rs) |->
             [report_period |-> p, State |-> rs[i].State, Enrolled |-> rs[i].Enrolled]]
            \o Offered(dir, P \ {p})

\* How often a row occurs in a sequence of rows.
Occurs(rows, r) == Cardinality({i \in 1..Len(rows) : rows[i] = r})

\* C15: the row content of the combined dataset is that of the extracts of
\* the period folders, each row as often as they hold it, and the dataset
\* is the same whatever order the folders came to be enumerated in.
C15_OrderIndependent ==
  Combined =>
    /\ \A r \in Range(Stored(csvFile)) \cup Range(Offered(dataDir, DOMAIN dataDir)) :
         Occurs(Stored(csvFile), r) = Occurs(Offered(dataDir, DOMAIN dataDir), r)
    /\ \A order \in Listings(DOMAIN dataDir) :
         to_csv(concat(all_dfs(dataDir, order))) = csvFile

\* A combine over two or more periods with rows whose folders were
\* enumerated latest first.
C15_Witness ==
  /\ Combined
  /\ Cardinality(Ingested(dataDir)) >= 2
  /\ Len(listing) >= 2
  /\ listing[1] > listing[2]

(* ------------------------------------------------------- normalization *)

\* C13: every row of the dataset a combine persisted, and every row loaded
\* from it, has an enrolled count that is not blank and not below 0, and a
\* cell that did not parse as a number is the count 0.
C13_EnrolledNormalized ==
  Combined =>
    /\ \A i \in 1..Len(csvFile.rows) :
         /\ csvFile.rows[i].Enrolled.form # "blank"
         /\ csvFile.rows[i].Enrolled.v >= 0
         /\ combined[i].Enrolled = NaN => csvFile.rows[i].Enrolled.v = 0
    /\ \A i \in 1..Len(load_data(csvFile)) :
         /\ load_data(csvFile)[i].Enrolled >= 0
         /\ combined[i].Enrolled = NaN => load_data(csvFile)[i].Enrolled = 0

(* ------------------------------------------------- the Lookup Enricher *)

\* The directory rows that are about contract c.
Entries(c) == {i \in 1..Len(directory.rows) : strip(directory.rows[i].contract) = c}

\* The parent the directory gives contract c: that of its last row.
DirectoryParent(c) ==
  strip(directory.rows[CHOOSE i \in Entries(c) : \A j \in Entries(c) : j <= i].parent)

\* A directory file was found and read and both of its columns discovered.
Discovered ==
  /\ directory.exists
  /\ directory.readable
  /\ contract_col(directory.columns) # ""
  /\ parent_col(directory.columns) # ""

\* C14 (as claimed): every contract resolves to the mapped value when the
\* map has its key, to "Unknown / Other" when the non-empty map lacks it,
\* and to "-- no mapping loaded --" when the map is empty, as it is
\* without a directory file or without the two columns.
C14_ThreeOutcomes ==
  orgPc = "added" =>
    /\ ~Discovered => DOMAIN parent_org_map = {}
    /\ \A i \in 1..Len(contract_id) :
         parent_organization[i] =
           (IF DOMAIN parent_org_map = {} THEN "-- no mapping loaded --"
            ELSE IF contract_id[i] \in DOMAIN parent_org_map
                 THEN parent_org_map[contract_id[i]]
                 ELSE "Unknown / Other")

\* C14 (amended): every contract resolves to the parent the directory
\* gives it; to "Unknown / Other" when the directory has rows but none for
\* the contract, or gives it no parent; and to the text "-- Load plan
\* directory for parent org data --", never to "Unknown / Other", when
\* there is no directory file, it cannot be read, a column is not
\* discovered, or it has no rows.
C14_ResolvedParent ==
  orgPc = "added" =>
    \A i \in 1..Len(contract_id) :
      /\ parent_organization[i] =
           (IF ~Discovered \/ directory.rows = <<>> THEN NoMappingText
            ELSE IF Entries(contract_id[i]) = {} THEN "Unknown / Other"
            ELSE IF DirectoryParent(contract_id[i]) = NaNCell THEN "Unknown / Other"
            ELSE DirectoryParent(contract_id[i]))
      /\ DOMAIN parent_org_map = {} => parent_organization[i] # "Unknown / Other"

\* With a directory loaded, one contract resolved to its parent, one that
\* the directory lists without a parent and one that it does not list
\* resolved to "Unknown / Other".
C14_Witness ==
  /\ orgPc = "added"
  /\ \E i, j, k \in 1..Len(contract_id) :
       /\ parent_organization[i] = "Humana"
       /\ contract_id[j] \in DOMAIN parent_org_map
       /\ parent_org_map[contract_id[j]] = NaNCell
       /\ parent_organization[j] = "Unknown / Other"
       /\ contract_id[k] \notin DOMAIN parent_org_map
       /\ parent_organization[k] = "Unknown / Other"

(* ------------------------------------------------------- the Aggregator *)

Rendered == view.ok

Crashed == ~view.ok /\ view.error # "none"

\* The sum of Enrolled over the rows of a set of row positions.
RECURSIVE SumAt(_, _)
SumAt(d, I) ==
  IF I = {} THEN 0
  ELSE LET i == CHOOSE j \in I : TRUE IN d[i].Enrolled + SumAt(d, I \ {i})

\* The enrolled sum of period p in the working subset, of all of its rows
\* and of those of one state.
PeriodSum(d, p) == SumAt(d, {i \in 1..Len(d) : d[i].report_period = p})
GroupSum(d, p, st) ==
  SumAt(d, {i \in 1..Len(d) : d[i].report_period = p /\ d[i].State = st})

\* The working subset's periods, its latest and the one before it (0: none).
SubsetPeriods == {view.df[i].report_period : i \in 1..Len(view.df)}
Latest == CHOOSE p \in SubsetPeriods : \A q \in SubsetPeriods : q <= p
Earlier == {q \in SubsetPeriods : q < Latest}
Previous == CHOOSE p \in Earlier : \A q \in Earlier : q <= p
LatestGroups == {view.df[i].State : i \in {j \in 1..Len(view.df) : view.df[j].report_period = Latest}}

\* A percentage reported as unavailable: the dash, no number of any kind.
Unavailable(x) == x.k = "dash"

\* C5: wherever a previous period exists and its enrolled sum is 0, the MoM
\* percent is reported as unavailable, not as a number, NaN or infinity: in
\* the per-state table, in the headline KPI and in the monthly series.
C5_SafeDivision ==
  (Rendered /\ Earlier # {}) =>
    /\ \A i \in 1..Len(view.by_state) :
         GroupSum(view.df, Previous, view.by_state[i].State) = 0
           => Unavailable(display_pct(view.by_state[i].MoMPct))
    /\ PeriodSum(view.df, Previous) = 0 => Unavailable(view.kpi.mom_pct)
    /\ \A i \in 2..Len(view.monthly) :
         view.monthly[i - 1].Enrolled = 0 => Unavailable(view.monthly[i].MoMPct)

\* The dataset's periods inside the requested range.
RangePeriods ==
  {df_full[i].report_period : i \in 1..Len(df_full)}
    \cap (view.sel.p_start .. view.sel.p_end)

\* C6: the monthly series has one entry for every period of the requested
\* range, with enrolled sum 0 for a period no row of the subset falls in.
C6_ReindexedTimeline ==
  Rendered =>
    \A p \in RangePeriods :
      /\ Cardinality({i \in 1..Len(view.monthly) : view.monthly[i].Period = p}) = 1
      /\ \A i \in 1..Len(view.monthly) :
           view.monthly[i].Period = p => view.monthly[i].Enrolled = PeriodSum(view.df, p)

\* A row passes a filter: its period is within the bounds, both included,
\* and each dimension with a non-empty selection holds its value.
Matches(r, sel) ==
  /\ sel.p_start <= r.report_period
  /\ r.report_period <= sel.p_end
  /\ sel.state = {} \/ r.State \in sel.state
  /\ sel.plan_type = {} \/ r.PlanType \in sel.plan_type

\* C7: the working subset is exactly the rows of the dataset that pass the
\* filter, each as often as the dataset holds it and in its order.
C7_FilterSemantics ==
  (Rendered \/ Crashed) => view.df = SelectSeq(df_full, LAMBDA r : Matches(r, view.sel))

\* A one-state filter over a range of several periods kept a row of each
\* bound and dropped a row of another state.
C7_Witness ==
  /\ Rendered
  /\ view.sel.state = {"CA"}
  /\ view.sel.p_start < view.sel.p_end
  /\ \E i, j \in 1..Len(view.df) :
       view.df[i].report_period = view.sel.p_start /\ view.df[j].report_period = view.sel.p_end
  /\ \E i \in 1..Len(df_full) : df_full[i].State # "CA" /\ Matches(df_full[i], [view.sel EXCEPT !.state = {}])

\* C8 (as claimed): every state of the latest period has exactly one row, its
\* MoM change the latest sum less the previous sum, the latter 0 when the
\* state, or the whole previous period, is absent.
C8_LeftJoin ==
  Rendered =>
    \A st \in LatestGroups :
      /\ Cardinality({i \in 1..Len(view.by_state) : view.by_state[i].State = st}) = 1
      /\ \A i \in 1..Len(view.by_state) :
           view.by_state[i].State = st =>
             view.by_state[i].MoMChange =
               GroupSum(view.df, Latest, st)
                 - (IF Earlier = {} THEN 0 ELSE GroupSum(view.df, Previous, st))

\* What add_mom does give: every state of the latest period has exactly one
\* row; with a previous period its MoM change is the latest sum less the
\* previous sum (0 when the state is absent from it); with no previous
\* period the MoM change is 0.
LeftJoinOnPrevious ==
  Rendered =>
    \A st \in LatestGroups :
      /\ Cardinality({i \in 1..Len(view.by_state) : view.by_state[i].State = st}) = 1
      /\ \A i \in 1..Len(view.by_state) :
           view.by_state[i].State = st =>
             /\ view.by_state[i].Enrolled = GroupSum(view.df, Latest, st)
             /\ view.by_state[i].MoMChange =
                  (IF Earlier = {} THEN 0
                   ELSE GroupSum(view.df, Latest, st) - GroupSum(view.df, Previous, st))

\* A state of the latest period that the previous period lacks is listed
\* with its whole sum as MoM change.
LeftJoinReached ==
  /\ Rendered
  /\ Earlier # {}
  /\ \E i \in 1..Len(view.by_state) :
       /\ \A j \in 1..Len(view.df) :
            view.df[j].report_period = Previous => view.df[j].State # view.by_state[i].State
       /\ view.by_state[i].MoMChange = view.by_state[i].Enrolled
       /\ view.by_state[i].MoMChange > 0

\* The period n positions before the latest, the latest counted as the first.
PositionsBack(n) == CHOOSE p \in SubsetPeriods : Cardinality({q \in SubsetPeriods : q >= p}) = n

\* C9: with fewer than 13 filtered periods YoY is unavailable; with 13 or
\* more it is the latest sum less the sum of the period 13 positions back.
C9_YoYDistance ==
  Rendered =>
    IF Cardinality(SubsetPeriods) < YOY_SPAN
    THEN view.kpi.k3_value.k = "dash" /\ view.kpi.k3_delta.k = "need13"
    ELSE view.kpi.k3_value =
           Num(PeriodSum(view.df, Latest) - PeriodSum(view.df, PositionsBack(YOY_SPAN)))

\* C10: a filter that matches no row of the dataset still renders, with
\* zero aggregates: total 0, no groups, no entry of the series above 0.
C10_EmptyResultRenders ==
  ((Rendered \/ Crashed) /\ df_full # <<>> /\ view.df = <<>>) =>
    /\ Rendered
    /\ view.kpi.latest_enrolled = 0
    /\ view.by_state = <<>>
    /\ \A i \in 1..Len(view.monthly) : view.monthly[i].Enrolled = 0

====
